---- MODULE Spec2Model ----
(***************************************************************************)
(* A model of the go-netmagis client: the CAS handshake run by NewClient   *)
(* (netmagis.go, cas.go), the transport wrapper (HttpClient) and the       *)
(* domain operations built on NetmagisClient.Call.                         *)
(*                                                                         *)
(* Text is modelled as a sequence of fragments (strings): a response body, *)
(* an error message and a URL are the concatenation of their fragments.    *)
(* Every literal the code searches for is one fragment, so                 *)
(* strings.Contains is membership and a regular expression is a scan over  *)
(* the fragments.  Host names are sequences of one-character strings.      *)
(***************************************************************************)
EXTENDS Integers, Sequences, FiniteSets, TLC

VARIABLES
    pc,           \* where the (single, synchronous) caller is
    httpClients,  \* number of HttpClient values made by NewHttpClient
    clients,      \* the NetmagisClient values NewClient has returned
    loc,          \* arguments and local variables of the current (or last) call
    log,          \* the requests sent by the current (or last) call, in order
    answers,      \* what the remote side answered to each of them
    result        \* what the current (or last) call returned

vars == <<pc, httpClients, clients, loc, log, answers, result>>

\* Bounds of the model.
MaxClients == 2   \* NewClient is called at most this many times

(***************************************************************************)
(* Text helpers                                                            *)
(***************************************************************************)
Range(s) == {s[i] : i \in 1..Len(s)}

\* strings.Contains(body, literal) for a literal that is one fragment
Contains(body, literal) == literal \in Range(body)

\* fmt.Sprintf("<prefix>%s", text)
Sprintf(prefix, text) == <<prefix>> \o text

Min(S) == CHOOSE x \in S : \A y \in S : x <= y
Max(S) == CHOOSE x \in S : \A y \in S : x >= y

Quote == "\""
Newline == "\n"

\* strings.Trim(s, cutset) for a one-character cutset: drop the leading and
\* the trailing occurrences
RECURSIVE TrimLeft(_, _)
TrimLeft(s, c) ==
    IF s # <<>> /\ Head(s) = c THEN TrimLeft(Tail(s), c) ELSE s

RECURSIVE TrimRight(_, _)
TrimRight(s, c) ==
    IF s # <<>> /\ s[Len(s)] = c THEN TrimRight(SubSeq(s, 1, Len(s) - 1), c) ELSE s

Trim(s, c) == TrimRight(TrimLeft(s, c), c)

\* The fragments that hold an apostrophe (for the class [^']).
HasApostrophe(f) == f \in {"'", "Name '", "' does not exist", "String '", "' not found"}

NotNewline(f) == f # Newline
NotApostrophe(f) == ~HasApostrophe(f)

\* Whether fragment f is in the character class: "." or "[^']".
InClass(class, f) == IF class = "." THEN NotNewline(f) ELSE NotApostrophe(f)

\* A match of  open X* close  in s, X any fragment of the class: the pairs
\* <<i, j>> of positions of open and close.
Delimited(s, open, close, class) ==
    {<<i, j>> \in (1..Len(s)) \X (1..Len(s)) :
        /\ i < j
        /\ s[i] = open
        /\ s[j] = close
        /\ \A k \in (i + 1)..(j - 1) : InClass(class, s[k])}

(***************************************************************************)
(* The literals and patterns of the code                                   *)
(***************************************************************************)
ErrorBanner == "<h2>Error!</h2>"
ErrorOpen == "<blockquote><FONT COLOR=\"#FF0000\">"
ErrorClose == "</FONT></blockquote>"

\* errorRegexp.FindSubmatch(body): <<>> when nothing matches, else
\* <<whole match, group 1>>.  Leftmost match, with a greedy (.*) that does
\* not cross a newline.
errorRegexpFindSubmatch(body) ==
    LET M == Delimited(body, ErrorOpen, ErrorClose, ".")
    IN  IF M = {} THEN <<>>
        ELSE LET i == Min({m[1] : m \in M})
                 j == Max({m[2] : m \in {n \in M : n[1] = i}})
             IN  <<SubSeq(body, i, j), SubSeq(body, i + 1, j - 1)>>

\* hostNotFoundRegexp: String '[^']*' not found
hostNotFoundRegexp(body) ==
    Delimited(body, "String '", "' not found", "[^']") # {}

\* searchRegexpValidate: is a.* in view
searchRegexpValidate(body) ==
    Delimited(body, "is a", " in view ", ".") # {}

\* the local hostNotFoundRegexp of GetHost: Name '[^']*' does not exist
nameNotExistRegexp(text) ==
    Delimited(text, "Name '", "' does not exist", "[^']") # {}

(***************************************************************************)
(* Transport: what the remote side can answer to one request               *)
(***************************************************************************)
\* URLs, as fragments.
BaseUrls == {<<"https://netmagis">>}
CasLoginUrl == <<"https://cas", "/login">>
CallbackUrl == <<"https://netmagis", "/", "start", "?ticket=ST-1">>

TransportError == <<"connection refused">>
NoError == <<>>

\* One answer of the network to one request: the transport fails, or a
\* response with a status, the values of its Location header and a body.
Response(status, location, body) ==
    [fail |-> FALSE, status |-> status, location |-> location, body |-> body,
     cut |-> FALSE]
Failure ==
    [fail |-> TRUE, status |-> 0, location |-> <<>>, body |-> <<>>, cut |-> FALSE]
\* A response whose body cannot be read to its end.
CutResponse(status, location) ==
    [fail |-> FALSE, status |-> status, location |-> location, body |-> <<>>,
     cut |-> TRUE]

\* A (*http.Response, error) pair: nil is TRUE for a nil response, err is
\* NoError for a nil error.
Returned(r) ==
    [nil |-> FALSE, status |-> r.status, location |-> r.location,
     body |-> r.body, cut |-> r.cut, err |-> NoError]
ReturnedError(e) ==
    [nil |-> TRUE, status |-> 0, location |-> <<>>, body |-> <<>>, cut |-> FALSE,
     err |-> e]

\* HttpClient.Get
HttpGet(r) ==
    IF r.fail THEN ReturnedError(Sprintf("HTTP error: ", TransportError))
    ELSE Returned(r)

\* GetRedirect without its test of the status code.
GetRedirectAnyStatus(r) ==
    IF r.fail THEN ReturnedError(TransportError) ELSE Returned(r)

\* HttpClient.GetRedirect
GetRedirect(r) ==
    IF r.fail THEN ReturnedError(TransportError)
    ELSE IF r.status # 301 /\ r.status # 302
         THEN ReturnedError(<<"invalid status code: '", "' (30{1,2} expected)">>)
         ELSE Returned(r)

\* HttpClient.PostForm
HttpPostForm(r) ==
    IF r.fail THEN ReturnedError(Sprintf("HTTP error: ", TransportError))
    ELSE Returned(r)

\* HttpClient.ReadBody
ReadBody(res) ==
    IF res.cut THEN [body |-> <<>>, err |-> <<"body read error: ", "unexpected EOF">>]
    ELSE [body |-> res.body, err |-> NoError]

\* A request whose POST goes through the default client of net/http (0), which
\* has no cookie jar, instead of the client's own.
RequestThroughDefaultClient(httpClient, method, url, form) ==
    [client |-> IF method = "POST" THEN 0 ELSE httpClient,
     method |-> method, url |-> url, form |-> form]

\* A request as the remote side sees it.
Request(httpClient, method, url, form) ==
    [client |-> httpClient, method |-> method, url |-> url, form |-> form]

NoForm == <<>>

(***************************************************************************)
(* CAS (cas.go)                                                            *)
(***************************************************************************)
ExecutionOpen == "<input type=\"hidden\" name=\"execution\" value="
ExecutionClose == "/>"

\* executionRegexp.FindSubmatch(loginPage):
\*   <input type="hidden" name="execution" value="?([^"]*)"/>
\* <<>> when nothing matches, else <<group 1>> of the leftmost match.
executionRegexpFindSubmatch(page) ==
    LET n == Len(page)
        \* a value that starts at position v: a run without quotes, then "/>
        ValueEnd(v) == Min({k \in v..(n + 1) : k = n + 1 \/ page[k] = Quote})
        MatchFrom(v) == /\ v <= n
                        /\ LET k == ValueEnd(v)
                           IN  k + 1 <= n /\ page[k] = Quote
                                          /\ page[k + 1] = ExecutionClose
        Start(i) == IF i + 1 <= n /\ page[i + 1] = Quote /\ MatchFrom(i + 2)
                    THEN i + 2
                    ELSE IF MatchFrom(i + 1) THEN i + 1 ELSE 0
        S == {i \in 1..n : page[i] = ExecutionOpen /\ Start(i) # 0}
    IN  IF S = {} THEN <<>>
        ELSE LET i == Min(S)
                 v == Start(i)
             IN  <<SubSeq(page, i, ValueEnd(v) + 1), SubSeq(page, v, ValueEnd(v) - 1)>>

\* The text of the page CAS answers to a rejected login.
AuthFailedHead == "<span>Authentication attempt has failed, likely due to invalid "
AuthFailedTail == "credentials. Please verify and try again. </span>"
\* What the raw string of loginErrorRegexp holds between the two: an
\* apostrophe, a comma, a line break, two tabs and an apostrophe.
AuthFailedGap == "',\n\t\t'"

\* loginErrorRegexp.Match(body)
loginErrorRegexp(body) ==
    \E i \in 1..(Len(body) - 2) :
        /\ body[i] = AuthFailedHead
        /\ body[i + 1] = AuthFailedGap
        /\ body[i + 2] = AuthFailedTail

\* CasClient.FindExecutionToken
FindExecutionToken(loginPage) ==
    LET submatch == executionRegexpFindSubmatch(loginPage)
    IN  IF Len(submatch) = 0
        THEN [token |-> <<>>, err |-> <<"token not found">>]
        ELSE [token |-> submatch[2], err |-> NoError]

\* The form CasClient.Login posts.
LoginForm(username, password, executionToken) ==
    [f \in {"_eventId", "username", "password", "execution"} |->
        CASE f = "_eventId" -> <<"submit">>
          [] f = "username" -> <<username>>
          [] f = "password" -> <<password>>
          [] f = "execution" -> executionToken]

(***************************************************************************)
(* Utils (netmagis.go)                                                     *)
(***************************************************************************)
Dot == "."
Digits == <<"0", "1", "2", "3", "4", "5", "6", "7", "8", "9">>
IsDigit(ch) == ch \in Range(Digits)
DigitValue(ch) == (CHOOSE i \in 1..Len(Digits) : Digits[i] = ch) - 1
IsLetter(ch) == ch \in {"a", "b", "c", "d", "e", "f", "h", "m", "o", "s", "t", "x"}
IsHexDigit(ch) == IsDigit(ch) \/ ch \in {"a", "b", "c", "d", "e", "f"}

\* strings.Split(s, sep) for a one-character separator
RECURSIVE Split(_, _)
Split(s, sep) ==
    IF sep \notin Range(s) THEN <<s>>
    ELSE LET i == Min({k \in 1..Len(s) : s[k] = sep})
         IN  <<SubSeq(s, 1, i - 1)>> \o Split(SubSeq(s, i + 1, Len(s)), sep)

\* strings.SplitN(s, sep, 2)
SplitN2(s, sep) ==
    IF sep \notin Range(s) THEN <<s>>
    ELSE LET i == Min({k \in 1..Len(s) : s[k] = sep})
         IN  <<SubSeq(s, 1, i - 1), SubSeq(s, i + 1, Len(s))>>

\* fqdnRegexp: ^[0-9a-zA-Z-]{2,63}(\.[a-zA-Z-]{2,63})+\.[a-zA-Z]{2,63}$
\* No class holds the dot, so the labels are the pieces between the dots.
fqdnRegexp(host) ==
    LET labels == Split(host, Dot)
        n == Len(labels)
        Sized(l) == Len(l) >= 2 /\ Len(l) <= 63
    IN  /\ n >= 3
        /\ \A k \in 1..n : Sized(labels[k])
        /\ \A ch \in Range(labels[1]) : IsDigit(ch) \/ IsLetter(ch) \/ ch = "-"
        /\ \A k \in 2..(n - 1) :
              \A ch \in Range(labels[k]) : IsLetter(ch) \/ ch = "-"
        /\ \A ch \in Range(labels[n]) : IsLetter(ch)

\* checkFqdn
checkFqdn(host) == fqdnRegexp(host)

\* The value of a run of decimal digits.
RECURSIVE Decimal(_)
Decimal(ds) ==
    IF ds = <<>> THEN 0
    ELSE 10 * Decimal(SubSeq(ds, 1, Len(ds) - 1)) + DigitValue(ds[Len(ds)])

\* net.ParseIP(host) != nil.  IPv4: four decimal fields of one to three
\* digits, none above 255, none with a leading zero.  IPv6: up to eight
\* fields of one to four hexadecimal digits, with at most one "::" (the
\* forms with a zone or an embedded IPv4 tail are left out).
ParsesAsIPv4(host) ==
    LET fields == Split(host, Dot)
    IN  /\ Len(fields) = 4
        /\ \A k \in 1..4 :
              LET f == fields[k]
              IN  /\ Len(f) >= 1 /\ Len(f) <= 3
                  /\ \A ch \in Range(f) : IsDigit(ch)
                  /\ (Len(f) > 1 => f[1] # "0")
                  /\ Decimal(f) <= 255

ParsesAsIPv6(host) ==
    LET fields == Split(host, ":")
        n == Len(fields)
        empty == {k \in 1..n : fields[k] = <<>>}
        Hex(f) == Len(f) <= 4 /\ \A ch \in Range(f) : IsHexDigit(ch)
        \* "::" shows as one empty field inside, or two at an end
        inner == {k \in empty : k > 1 /\ k < n}
    IN  /\ n >= 3
        /\ \A k \in 1..n : Hex(fields[k])
        /\ Cardinality(inner) <= 1
        /\ (1 \in empty => 2 \in empty)
        /\ (n \in empty => (n - 1) \in empty)
        /\ (1 \in empty /\ n \in empty /\ n > 3 => inner = {})
        /\ IF empty = {} THEN n = 8 ELSE n - Cardinality(empty) <= 7

checkIp(host) == ParsesAsIPv4(host) \/ ParsesAsIPv6(host)

\* splitFqdn cutting at the last dot instead of the first.
splitFqdnAtLastDot(fqdn) ==
    IF Dot \notin Range(fqdn)
    THEN [panic |-> TRUE, name |-> <<>>, domain |-> <<>>]
    ELSE LET i == Max({k \in 1..Len(fqdn) : fqdn[k] = Dot})
         IN  [panic |-> FALSE, name |-> SubSeq(fqdn, 1, i - 1),
              domain |-> SubSeq(fqdn, i + 1, Len(fqdn))]

\* splitFqdn: res[0], res[1] of strings.SplitN(fqdn, ".", 2).  Indexing
\* res[1] panics when there is no dot.
splitFqdn(fqdn) ==
    LET res == SplitN2(fqdn, Dot)
    IN  IF Len(res) < 2
        THEN [panic |-> TRUE, name |-> <<>>, domain |-> <<>>]
        ELSE [panic |-> FALSE, name |-> res[1], domain |-> res[2]]

\* Values of a map[string]interface{}.
BoolValue(b) == [t |-> "bool", b |-> b, i |-> 0, s |-> <<>>, l |-> <<>>]
IntValue(i) == [t |-> "int", b |-> FALSE, i |-> i, s |-> <<>>, l |-> <<>>]
StringValue(s) == [t |-> "string", b |-> FALSE, i |-> 0, s |-> s, l |-> <<>>]
ListValue(l) == [t |-> "list", b |-> FALSE, i |-> 0, s |-> <<>>, l |-> l]

\* try(mapInstance, key, defaultValue)
try(mapInstance, key, defaultValue) ==
    IF key \in DOMAIN mapInstance THEN mapInstance[key] ELSE defaultValue

\* strconv.Itoa
RECURSIVE ItoaNat(_)
ItoaNat(n) ==
    IF n < 10 THEN <<Digits[n + 1]>>
    ELSE ItoaNat(n \div 10) \o <<Digits[(n % 10) + 1]>>
Itoa(i) == IF i < 0 THEN <<"-">> \o ItoaNat(0 - i) ELSE ItoaNat(i)

\* A converted value, or the panic of a failed type assertion.
Converted(s) == [panic |-> FALSE, s |-> s]
AssertionPanic == [panic |-> TRUE, s |-> <<>>]

\* value.(string)
AssertString(value) ==
    IF value.t = "string" THEN Converted(value.s) ELSE AssertionPanic

\* convertInt
convertInt(value) ==
    IF value.t = "int" THEN Converted(Itoa(value.i)) ELSE AssertString(value)

\* convertBool
convertBool(value) ==
    IF value.t = "bool"
    THEN Converted(IF value.b THEN <<"1">> ELSE <<"0">>)
    ELSE AssertString(value)

(***************************************************************************)
(* What a call returns                                                     *)
(***************************************************************************)
NoResult == [op |-> "none", kind |-> "none", val |-> <<>>, err |-> NoError]
Running(op) == [op |-> op, kind |-> "running", val |-> <<>>, err |-> NoError]
\* (value, nil)
Value(op, v) == [op |-> op, kind |-> "value", val |-> v, err |-> NoError]
\* (nil, nil)
Absent(op) == [op |-> op, kind |-> "absent", val |-> <<>>, err |-> NoError]
\* (nil, &NetmagisError{e})
Error(op, e) == [op |-> op, kind |-> "error", val |-> <<>>, err |-> e]
\* a run-time panic: the call does not return
Panic(op) == [op |-> op, kind |-> "panic", val |-> <<>>, err |-> NoError]

(***************************************************************************)
(* The answers the remote side may give during the handshake               *)
(***************************************************************************)
Usernames == {"alice"}
Passwords == {"secret"}

StartResponses ==
    {Failure}
    \cup {Response(st, l, <<>>) : st \in {200, 301, 302},
                                  l \in {<<>>, <<CasLoginUrl>>}}

LoginPages ==
    { <<>>,
      <<"<form>", ExecutionOpen, Quote, "e1s1", Quote, ExecutionClose>>,
      <<ExecutionOpen, "e1s1", Quote, ExecutionClose>>,
      <<ExecutionOpen, Quote, Quote, ExecutionClose>>,
      <<ExecutionOpen, Quote, "e1s1", Quote>> }

LoginPageResponses ==
    {Failure, CutResponse(200, <<>>)}
    \cup {Response(st, <<>>, b) : st \in {200, 500}, b \in LoginPages}

CredentialBodies ==
    { <<>>,
      <<AuthFailedHead, AuthFailedTail>>,
      <<AuthFailedHead, AuthFailedGap, AuthFailedTail>> }

CredentialResponses ==
    {Failure}
    \cup {Response(st, l, b) : st \in {200, 302, 401},
                               l \in {<<>>, <<CallbackUrl>>},
                               b \in CredentialBodies}

CallbackResponses ==
    {Failure} \cup {Response(st, <<>>, <<>>) : st \in {200, 500}}

(***************************************************************************)
(* NewClient and CasClient.Connect, one action per request                 *)
(***************************************************************************)
\* The call returns e to its caller.
Return(r) ==
    /\ pc' = "idle"
    /\ result' = r

\* The call panics: the program stops.
Crash(op) ==
    /\ pc' = "crashed"
    /\ result' = Panic(op)

\* NewClient up to cas.Connect: NewHttpClient, the GET of {url}/start and
\* the Location header of its answer.
NewClient(url, username, password, r) ==
    /\ pc = "idle"
    /\ httpClients < MaxClients
    /\ LET httpClient == httpClients + 1
           res == GetRedirect(r)
       IN  /\ httpClients' = httpClient
           /\ log' = <<Request(httpClient, "GET", url \o <<"/", "start">>, NoForm)>>
           /\ answers' = <<r>>
           /\ loc' = [url |-> url, username |-> username, password |-> password,
                      httpClient |-> httpClient,
                      LoginUrl |-> IF Len(res.location) = 0 THEN <<>>
                                   ELSE res.location[1],
                      executionToken |-> <<>>, location |-> <<>>]
           /\ IF res.err # NoError
              THEN Return(Error("NewClient",
                        Sprintf("NewClient: unable to retrieve CAS URL: ", res.err)))
              ELSE IF Len(res.location) = 0
                   THEN Crash("NewClient")
                   ELSE /\ pc' = "GetLoginPage"
                        /\ result' = Running("NewClient")
    /\ UNCHANGED clients

\* The error NewClient returns when cas.Connect fails.
CasError(stage, e) ==
    Error("NewClient", Sprintf("NewClient: CAS error: ", Sprintf(stage, e)))

\* Connect asking for the login page again when the transport failed.
GetLoginPageRetrying(r) ==
    /\ pc = "GetLoginPage"
    /\ log' = Append(log, Request(loc.httpClient, "GET", loc.LoginUrl, NoForm))
    /\ answers' = Append(answers, r)
    /\ LET res == HttpGet(r)
           page == ReadBody(res)
           found == FindExecutionToken(page.body)
       IN  /\ loc' = [loc EXCEPT !.executionToken = found.token]
           /\ IF res.err # NoError
              THEN pc' = "GetLoginPage" /\ result' = Running("NewClient")
              ELSE IF res.status # 200
              THEN Return(CasError("CAS login page error: ", <<"HTTP Error: ">>))
              ELSE IF page.err # NoError
              THEN Return(CasError("CAS login page error: ", page.err))
              ELSE IF found.err # NoError
              THEN Return(CasError("CAS execution token error: ", found.err))
              ELSE /\ pc' = "Login"
                   /\ result' = Running("NewClient")
    /\ UNCHANGED <<httpClients, clients>>

\* CasClient.GetLoginPage and FindExecutionToken, as Connect calls them.
GetLoginPage(r) ==
    /\ pc = "GetLoginPage"
    /\ log' = Append(log, Request(loc.httpClient, "GET", loc.LoginUrl, NoForm))
    /\ answers' = Append(answers, r)
    /\ LET res == HttpGet(r)
           page == ReadBody(res)
           found == FindExecutionToken(page.body)
       IN  /\ loc' = [loc EXCEPT !.executionToken = found.token]
           /\ IF res.err # NoError
              THEN Return(CasError("CAS login page error: ", res.err))
              ELSE IF res.status # 200
              THEN Return(CasError("CAS login page error: ", <<"HTTP Error: ">>))
              ELSE IF page.err # NoError
              THEN Return(CasError("CAS login page error: ", page.err))
              ELSE IF found.err # NoError
              THEN Return(CasError("CAS execution token error: ", found.err))
              ELSE /\ pc' = "Login"
                   /\ result' = Running("NewClient")
    /\ UNCHANGED <<httpClients, clients>>

\* CasClient.Login up to the callback: the POST of the credentials.
\* `defer res.Body.Close()` reads res before err is looked at.
Login(r) ==
    /\ pc = "Login"
    /\ log' = Append(log, Request(loc.httpClient, "POST", loc.LoginUrl,
                        LoginForm(loc.username, loc.password, loc.executionToken)))
    /\ answers' = Append(answers, r)
    /\ LET res == HttpPostForm(r)
           body == ReadBody(res).body
       IN  /\ loc' = [loc EXCEPT !.location = IF Len(res.location) = 0 THEN <<>>
                                              ELSE res.location[1]]
           /\ IF res.nil
              THEN Crash("NewClient")
              ELSE IF res.err # NoError
              THEN Return(CasError("CAS login error: ", res.err))
              ELSE IF loginErrorRegexp(body)
              THEN Return(CasError("CAS login error: ", <<"invalid login or password">>))
              ELSE IF Len(res.location) = 0
              THEN Crash("NewClient")
              ELSE /\ pc' = "Callback"
                   /\ result' = Running("NewClient")
    /\ UNCHANGED <<httpClients, clients>>

\* The rest of CasClient.Login, and the return of Connect and NewClient:
\* the GET of the location the login service answered.
LoginCallback(r) ==
    /\ pc = "Callback"
    /\ log' = Append(log, Request(loc.httpClient, "GET", loc.location, NoForm))
    /\ answers' = Append(answers, r)
    /\ UNCHANGED loc
    /\ LET res == HttpGet(r)
           client == [BaseUrl |-> loc.url, HttpClient |-> loc.httpClient]
       IN  IF res.nil
           THEN Crash("NewClient") /\ UNCHANGED clients
           ELSE IF res.err # NoError
           THEN /\ Return(CasError("CAS login error: ",
                            Sprintf("login call back error: ", res.err)))
                /\ UNCHANGED clients
           ELSE /\ Return(Value("NewClient", client))
                /\ clients' = Append(clients, client)
    /\ UNCHANGED httpClients

(***************************************************************************)
(* NetmagisClient.Call and the operations built on it                      *)
(***************************************************************************)
\* What an operation did: the requests it sent and what it returned.
Outcome(sent, ret) == [sent |-> sent, ret |-> ret]

\* NetmagisClient.JoinUrl, for one path
JoinUrl(c, path) == c.BaseUrl \o <<"/">> \o Trim(path, "/")

\* The success predicates of the operations.
SearchCheckFunc(body) == searchRegexpValidate(body) \/ hostNotFoundRegexp(body)
GetHostCheckFunc(body) == TRUE
\* A predicate of AddHost that accepts every body.
AddHostAcceptsAll(body) == TRUE
AddHostCheckFunc(body) == Contains(body, "Host has been added.")
UpdateHostCheckFunc(body) ==
    Contains(body, "The modification has been stored in database")
DelHostCheckFunc(body) == Contains(body, "has been removed")
AddAliasCheckFunc(body) == Contains(body, "The alias has been added")

\* The success predicate a caller of Call passes (validateFunc), by the
\* operation it is of.
Operations == {"Search", "GetHost", "AddHost", "UpdateHost", "DelHost", "AddAlias"}
CheckFunc(op, body) ==
    CASE op = "Search" -> SearchCheckFunc(body)
      [] op = "GetHost" -> GetHostCheckFunc(body)
      [] op = "AddHost" -> AddHostCheckFunc(body)
      [] op = "UpdateHost" -> UpdateHostCheckFunc(body)
      [] op = "DelHost" -> DelHostCheckFunc(body)
      [] op = "AddAlias" -> AddAliasCheckFunc(body)

\* NetmagisClient.Call: one POST of formData to JoinUrl(uri) through the
\* client's HttpClient, answered by r.
Call(c, uri, formData, validateFunc, r) ==
    LET res == HttpPostForm(r)
        body == ReadBody(res).body
        sent == <<Request(c.HttpClient, "POST", JoinUrl(c, uri), formData)>>
        submatch == errorRegexpFindSubmatch(body)
    IN  IF res.err # NoError
        THEN Outcome(sent, Error("Call", Sprintf("ClientError: ", res.err)))
        ELSE IF Contains(body, ErrorBanner)
        THEN IF Len(submatch) < 2
             THEN Outcome(sent, Panic("Call"))
             ELSE Outcome(sent, Error("Call",
                      Sprintf("NetmagisError: ", Trim(submatch[2], Quote))))
        ELSE IF ~CheckFunc(validateFunc, body)
        THEN Outcome(sent, Error("Call",
                 Sprintf("ValidationError: unexpected output (raw HTML answer for debug): ",
                         body)))
        ELSE Outcome(sent, Value("Call", body))

\* An outcome of Call as the outcome of the operation that made the call.
As(op, out) == Outcome(out.sent,
                   [op |-> op, kind |-> out.ret.kind, val |-> out.ret.val,
                    err |-> out.ret.err])

\* NetmagisClient.DelHost
DelHost(c, fqdn, r) ==
    LET split == splitFqdn(fqdn)
        formData == [idviews |-> <<"1">>, name |-> split.name,
                     domain |-> split.domain]
    IN  IF split.panic THEN Outcome(<<>>, Panic("DelHost"))
        ELSE LET out == Call(c, <<"/", "del">>, formData, "DelHost", r)
             IN  IF out.ret.kind = "value"
                 THEN Outcome(out.sent, Value("DelHost", <<>>))
                 ELSE As("DelHost", out)

\* NetmagisClient.AddAlias
AddAlias(c, cname, data, r) ==
    LET cnameSplit == splitFqdn(cname)
        dataSplit == splitFqdn(data)
        formData == [action |-> <<"add-alias">>, name |-> cnameSplit.name,
                     domain |-> cnameSplit.domain, nameref |-> dataSplit.name,
                     domainref |-> dataSplit.domain, idview |-> <<"1">>]
    IN  IF cnameSplit.panic \/ dataSplit.panic
        THEN Outcome(<<>>, Panic("AddAlias"))
        ELSE LET out == Call(c, <<"/", "del">>, formData, "AddAlias", r)
             IN  IF out.ret.kind = "value"
                 THEN Outcome(out.sent, Value("AddAlias", <<>>))
                 ELSE As("AddAlias", out)

\* The fields AddHost and UpdateHost take from params, converted; panic when
\* a type assertion fails.
HostFields(params) ==
    LET conv == [ttl |-> convertInt(try(params, "ttl", StringValue(<<>>))),
                 mac |-> AssertString(try(params, "mac", StringValue(<<>>))),
                 iddhcpprof |-> convertInt(try(params, "iddhcpprof", IntValue(0))),
                 hinfo |-> AssertString(try(params, "hinfo", StringValue(<<"PC/Unix">>))),
                 comment |-> AssertString(try(params, "comment", StringValue(<<>>))),
                 respname |-> AssertString(try(params, "respname", StringValue(<<>>))),
                 respmail |-> AssertString(try(params, "respmail", StringValue(<<>>))),
                 sendsmtp |-> convertBool(try(params, "sendsmtp", BoolValue(FALSE)))]
    IN  [panic |-> \E f \in DOMAIN conv : conv[f].panic,
         values |-> [f \in DOMAIN conv |-> conv[f].s]]

\* The form left as it is: sendsmtp is sent with the value "0" too.
KeepSmtpZero(formData) == formData

\* delete(formData, "sendsmtp") when formData["sendsmtp"][0] == "0"
DropSmtpZero(formData) ==
    IF formData["sendsmtp"] = <<"0">>
    THEN [f \in (DOMAIN formData) \ {"sendsmtp"} |-> formData[f]]
    ELSE formData

\* formData of AddHost
AddHostForm(name, domain, ip, params) ==
    LET fixed == [action |-> <<"add-host">>, idview |-> <<"1">>, addr |-> ip,
                  name |-> name, domain |-> domain, naddr |-> <<"1">>,
                  confirm |-> <<"yes">>]
        host == HostFields(params)
    IN  [panic |-> host.panic,
         form |-> DropSmtpZero(fixed @@ host.values)]

\* formData of UpdateHost with no default of its own for hinfo.
UpdateHostFormBare(name, domain, idrr, params) ==
    LET fixed == [action |-> <<"store">>, confirm |-> <<"yes">>, idrr |-> idrr,
                  idview |-> <<"1">>, name |-> name, domain |-> domain]
        host == HostFields(params)
        hinfo == IF "hinfo" \in DOMAIN params THEN host.values.hinfo ELSE <<>>
    IN  [panic |-> host.panic,
         form |-> DropSmtpZero(fixed @@ [host.values EXCEPT !.hinfo = hinfo])]

\* formData of UpdateHost
UpdateHostForm(name, domain, idrr, params) ==
    LET fixed == [action |-> <<"store">>, confirm |-> <<"yes">>, idrr |-> idrr,
                  idview |-> <<"1">>, name |-> name, domain |-> domain]
        host == HostFields(params)
    IN  [panic |-> host.panic,
         form |-> DropSmtpZero(fixed @@ host.values)]

\* NetmagisClient.UpdateHost
UpdateHost(c, fqdn, idrr, params, r) ==
    LET split == splitFqdn(fqdn)
        formData == UpdateHostForm(split.name, split.domain, idrr, params)
    IN  IF split.panic \/ formData.panic
        THEN Outcome(<<>>, Panic("UpdateHost"))
        ELSE LET out == Call(c, <<"/", "mod">>, formData.form, "UpdateHost", r)
             IN  IF out.ret.kind = "value"
                 THEN Outcome(out.sent, Value("UpdateHost", <<>>))
                 ELSE As("UpdateHost", out)

(***************************************************************************)
(* Decoding of the HTML answers.  A page is a run of fragments; an element *)
(* is its opening fragment, its attributes as key, value pairs, and ">".   *)
(***************************************************************************)
TdOpen == "<td class=\"tab-text10\">"
TdClose == "</td>"
Space == " "

\* The positions of fragment f in s, in order.
RECURSIVE PositionsFrom(_, _, _)
PositionsFrom(s, f, i) ==
    IF i > Len(s) THEN <<>>
    ELSE (IF s[i] = f THEN <<i>> ELSE <<>>) \o PositionsFrom(s, f, i + 1)
Positions(s, f) == PositionsFrom(s, f, 1)

\* The first position of f in s after i, or Len(s) + 1.
NextOf(s, f, i) ==
    Min({k \in (i + 1)..(Len(s) + 1) : k = Len(s) + 1 \/ s[k] = f})

\* nodeText of the cell opened at i: strings.TrimSpace of its inner text
nodeText(body, i) ==
    Trim(SubSeq(body, i + 1, NextOf(body, TdClose, i) - 1), Space)

\* strings.ToLower, on the words the pages use
ToLower(f) ==
    CASE f = "Name" -> "name"
      [] f = "TTL" -> "ttl"
      [] f = "SMTP" -> "smtp"
      [] f = "DHCP" -> "dhcp"
      [] f = "Aliases" -> "aliases"
      [] f = "Allowed" -> "allowed"
      [] f = "Is" -> "is"
      [] OTHER -> f

\* The key of a label cell: the parentheses dropped, the spaces made
\* underscores, lower case.
RECURSIVE FieldKey(_)
FieldKey(text) ==
    IF text = <<>> THEN <<>>
    ELSE LET f == Head(text)
         IN  (IF f \in {"(", ")"} THEN <<>>
              ELSE IF f = Space THEN <<"_">>
              ELSE <<ToLower(f)>>) \o FieldKey(Tail(text))

\* v, _ := strconv.Atoi(value): an optional sign and decimal digits, else 0
Atoi(value) ==
    LET signed == value # <<>> /\ Head(value) \in {"+", "-"}
        ds == IF signed THEN Tail(value) ELSE value
    IN  IF ds = <<>> \/ \E ch \in Range(ds) : ~IsDigit(ch) THEN 0
        ELSE IF signed /\ Head(value) = "-" THEN 0 - Decimal(ds)
        ELSE Decimal(ds)

\* Every field stored as the text of its cell.
FieldValueVerbatim(field, value) == StringValue(value)

\* The value stored for a field of the /search table.
FieldValue(field, value) ==
    CASE field = <<"smtp", "_", "emit", "_", "right">> ->
            BoolValue(value = <<"Yes">>)
      [] field = <<"dhcp", "_", "profile">> ->
            StringValue(IF value # <<"No", Space, "profile">> THEN value ELSE <<>>)
      [] field = <<"ttl">> -> IntValue(Atoi(value))
      [] field \in {<<"aliases">>, <<"allowed", "_", "groups">>} ->
            ListValue(Split(value, Space))
      [] OTHER -> StringValue(value)

\* The loop of Search over the cells at positions cells[k..]: field is the
\* key the last label cell left, idx the index of the next cell.
RECURSIVE SearchCells(_, _, _, _, _)
SearchCells(body, cells, k, field, hostParams) ==
    IF k > Len(cells) THEN hostParams
    ELSE IF (k - 1) % 2 = 0
         THEN SearchCells(body, cells, k + 1,
                          FieldKey(nodeText(body, cells[k])), hostParams)
         ELSE SearchCells(body, cells, k + 1, <<>>,
                          (field :> FieldValue(field, nodeText(body, cells[k])))
                              @@ hostParams)

EmptyMap == [k \in {} |-> <<>>]

\* hostParams of Search with is_alias set before the cells are read, so
\* that a cell of that label takes its place.
SearchParamsCellsLast(host, body) ==
    LET hostParams == SearchCells(body, Positions(body, TdOpen), 1, <<>>, EmptyMap)
        same == /\ <<"name">> \in DOMAIN hostParams
                /\ hostParams[<<"name">>].t = "string"
                /\ hostParams[<<"name">>].s = host
    IN  hostParams @@ (<<"is", "_", "alias">> :> BoolValue(~same))

\* hostParams of Search, with the computed is_alias
SearchParams(host, body) ==
    LET hostParams == SearchCells(body, Positions(body, TdOpen), 1, <<>>, EmptyMap)
        same == /\ <<"name">> \in DOMAIN hostParams
                /\ hostParams[<<"name">>].t = "string"
                /\ hostParams[<<"name">>].s = host
    IN  (<<"is", "_", "alias">> :> BoolValue(~same)) @@ hostParams

\* Search without its test of the not-found answer.
SearchWithoutNotFound(c, host, r) ==
    IF ~checkIp(host) /\ ~checkFqdn(host)
    THEN Outcome(<<>>, Error("Search",
             <<"host '">> \o host \o <<"' is not a FQDN or and IP address">>))
    ELSE LET out == Call(c, <<"/", "search">>, [q |-> host], "Search", r)
         IN  IF out.ret.kind # "value" THEN As("Search", out)
             ELSE Outcome(out.sent, Value("Search", SearchParams(host, out.ret.val)))

\* Search without its test of the host.
SearchUnchecked(c, host, r) ==
    LET out == Call(c, <<"/", "search">>, [q |-> host], "Search", r)
    IN  IF out.ret.kind # "value" THEN As("Search", out)
        ELSE IF hostNotFoundRegexp(out.ret.val)
        THEN Outcome(out.sent, Absent("Search"))
        ELSE Outcome(out.sent, Value("Search", SearchParams(host, out.ret.val)))

\* NetmagisClient.Search
Search(c, host, r) ==
    IF ~checkIp(host) /\ ~checkFqdn(host)
    THEN Outcome(<<>>, Error("Search",
             <<"host '">> \o host \o <<"' is not a FQDN or and IP address">>))
    ELSE LET out == Call(c, <<"/", "search">>, [q |-> host], "Search", r)
         IN  IF out.ret.kind # "value" THEN As("Search", out)
             ELSE IF hostNotFoundRegexp(out.ret.val)
             THEN Outcome(out.sent, Absent("Search"))
             ELSE Outcome(out.sent, Value("Search", SearchParams(host, out.ret.val)))

InputOpen == "<input"
SelectOpen == "<select"
SelectClose == "</select>"
OptionOpen == "<option"
TagEnd == ">"

\* node.Attr of the element opened at i: the pairs up to the next ">"; a
\* key with nothing after it has the empty value.
RECURSIVE AttrPairs(_)
AttrPairs(fs) ==
    IF fs = <<>> THEN <<>>
    ELSE IF Len(fs) = 1 THEN <<[Key |-> fs[1], Val |-> ""]>>
    ELSE <<[Key |-> fs[1], Val |-> fs[2]]>> \o AttrPairs(SubSeq(fs, 3, Len(fs)))
Attr(body, i) == AttrPairs(SubSeq(body, i + 1, NextOf(body, TagEnd, i) - 1))

\* htmlquery.SelectAttr: the value of the first attribute of that name, or ""
SelectAttr(attr, name) ==
    LET K == {k \in 1..Len(attr) : attr[k].Key = name}
    IN  IF K = {} THEN "" ELSE attr[Min(K)].Val

\* The loop of GetHost over the <input> nodes at positions nodes[k..].
RECURSIVE GetHostInputs(_, _, _, _)
GetHostInputs(body, nodes, k, hostParams) ==
    IF k > Len(nodes) THEN hostParams
    ELSE LET attr == Attr(body, nodes[k])
             inputName == SelectAttr(attr, "name")
             inputValue ==
                 IF inputName = "sendsmtp"
                 THEN IF Len(attr) = 4 /\ attr[4].Key = "checked" THEN "1" ELSE "0"
                 ELSE SelectAttr(attr, "value")
         IN  IF inputName \in {"", "action", "confirm"}
             THEN GetHostInputs(body, nodes, k + 1, hostParams)
             ELSE GetHostInputs(body, nodes, k + 1,
                                (inputName :> inputValue) @@ hostParams)

\* The options of the <select> opened at i, up to its </select>.
Options(body, i) ==
    LET end == NextOf(body, SelectClose, i)
        all == Positions(body, OptionOpen)
    IN  SelectSeq(all, LAMBDA o : o > i /\ o < end)

\* The first option whose second attribute is `selected`, or 0.
SelectedOption(body, options) ==
    LET S == {k \in 1..Len(options) :
                 LET attr == Attr(body, options[k])
                 IN  Len(attr) = 2 /\ attr[2].Key = "selected"}
    IN  IF S = {} THEN 0 ELSE options[Min(S)]

\* The loop of GetHost over the <select> nodes at positions nodes[k..].
RECURSIVE GetHostSelects(_, _, _, _)
GetHostSelects(body, nodes, k, hostParams) ==
    IF k > Len(nodes) THEN hostParams
    ELSE LET selectName == SelectAttr(Attr(body, nodes[k]), "name")
             o == SelectedOption(body, Options(body, nodes[k]))
             next == IF o # 0
                     THEN (selectName :> SelectAttr(Attr(body, o), "value")) @@ hostParams
                     ELSE IF selectName = "iddhcpprof"
                          THEN (selectName :> "0") @@ hostParams
                          ELSE hostParams
         IN  GetHostSelects(body, nodes, k + 1, next)

\* hostParams of GetHost
GetHostParams(body) ==
    GetHostSelects(body, Positions(body, SelectOpen), 1,
        GetHostInputs(body, Positions(body, InputOpen), 1, EmptyMap))

\* GetHost returning (nil, nil) on every error of Call.
GetHostSwallowing(c, fqdn, r) ==
    LET split == splitFqdn(fqdn)
        formData == [action |-> <<"edit">>, name |-> split.name,
                     domain |-> split.domain]
    IN  IF split.panic THEN Outcome(<<>>, Panic("GetHost"))
        ELSE LET out == Call(c, <<"/", "mod">>, formData, "GetHost", r)
             IN  IF out.ret.kind = "error"
                 THEN Outcome(out.sent, Absent("GetHost"))
                 ELSE IF out.ret.kind = "panic" THEN As("GetHost", out)
                 ELSE Outcome(out.sent, Value("GetHost", GetHostParams(out.ret.val)))

\* GetHost failing on a form with no field to decode.
GetHostExpectingFields(c, fqdn, r) ==
    LET split == splitFqdn(fqdn)
        formData == [action |-> <<"edit">>, name |-> split.name,
                     domain |-> split.domain]
    IN  IF split.panic THEN Outcome(<<>>, Panic("GetHost"))
        ELSE LET out == Call(c, <<"/", "mod">>, formData, "GetHost", r)
             IN  IF out.ret.kind = "error"
                 THEN IF nameNotExistRegexp(out.ret.err)
                      THEN Outcome(out.sent, Absent("GetHost"))
                      ELSE As("GetHost", out)
                 ELSE IF out.ret.kind = "panic" THEN As("GetHost", out)
                 ELSE IF GetHostParams(out.ret.val) = EmptyMap
                 THEN Outcome(out.sent, Error("GetHost",
                          <<"unable to parse /mod HTML response: ">>))
                 ELSE Outcome(out.sent, Value("GetHost", GetHostParams(out.ret.val)))

\* NetmagisClient.GetHost
GetHost(c, fqdn, r) ==
    LET split == splitFqdn(fqdn)
        formData == [action |-> <<"edit">>, name |-> split.name,
                     domain |-> split.domain]
    IN  IF split.panic THEN Outcome(<<>>, Panic("GetHost"))
        ELSE LET out == Call(c, <<"/", "mod">>, formData, "GetHost", r)
             IN  IF out.ret.kind = "error"
                 THEN IF nameNotExistRegexp(out.ret.err)
                      THEN Outcome(out.sent, Absent("GetHost"))
                      ELSE As("GetHost", out)
                 ELSE IF out.ret.kind = "panic" THEN As("GetHost", out)
                 ELSE Outcome(out.sent, Value("GetHost", GetHostParams(out.ret.val)))

\* AddHost without its test of the host GetHost returned.
AddHostExistingIgnored(fqdn, params, got) ==
    IF got.ret.kind = "panic"
    THEN [sent |-> got.sent, ret |-> Panic("AddHost"), proceed |-> FALSE]
    ELSE IF got.ret.kind = "error"
    THEN [sent |-> got.sent, proceed |-> FALSE,
          ret |-> Error("AddHost", Sprintf("unable to retrieve host: ", got.ret.err))]
    ELSE [sent |-> got.sent, ret |-> Running("AddHost"), proceed |-> TRUE]

\* What AddHost does with what its GetHost returned (got): it stops, or it
\* goes on to the write (proceed).
AddHostExisting(fqdn, params, got) ==
    LET multiple == try(params, "multiple", BoolValue(FALSE))
    IN  IF got.ret.kind = "panic"
        THEN [sent |-> got.sent, ret |-> Panic("AddHost"), proceed |-> FALSE]
        ELSE IF got.ret.kind = "error"
        THEN [sent |-> got.sent, proceed |-> FALSE,
              ret |-> Error("AddHost",
                          Sprintf("unable to retrieve host: ", got.ret.err))]
        ELSE IF got.ret.kind = "value" /\ multiple.t # "bool"
        THEN [sent |-> got.sent, ret |-> Panic("AddHost"), proceed |-> FALSE]
        ELSE IF got.ret.kind = "value" /\ ~multiple.b
        THEN [sent |-> got.sent, proceed |-> FALSE,
              ret |-> Error("AddHost",
                          <<"host '">> \o fqdn
                          \o <<"' already declared, use ", "multiple",
                               " parameter to allow round-robin DNS">>)]
        ELSE [sent |-> got.sent, ret |-> Running("AddHost"), proceed |-> TRUE]

\* AddHost up to its write: splitFqdn, the GetHost that looks for the host
\* and the `multiple` parameter.
AddHostCheck(c, fqdn, params, r) ==
    IF splitFqdn(fqdn).panic
    THEN [sent |-> <<>>, ret |-> Panic("AddHost"), proceed |-> FALSE]
    ELSE AddHostExisting(fqdn, params, GetHost(c, fqdn, r))

\* The write of AddHost: formData and the Call of /add.
AddHostWrite(c, fqdn, ip, params, r) ==
    LET split == splitFqdn(fqdn)
        formData == AddHostForm(split.name, split.domain, ip, params)
    IN  IF formData.panic THEN Outcome(<<>>, Panic("AddHost"))
        ELSE LET out == Call(c, <<"/", "add">>, formData.form, "AddHost", r)
             IN  IF out.ret.kind = "value"
                 THEN Outcome(out.sent, Value("AddHost", <<>>))
                 ELSE As("AddHost", out)

(***************************************************************************)
(* The arguments the caller may pass and the answers the remote side may   *)
(* give to an operation                                                    *)
(***************************************************************************)
FqdnName == <<"a", "b", ".", "c", "d", ".", "e", "f">>
OtherName == <<"m", "x", ".", "c", "d", ".", "e", "f">>
ShortName == <<"h", ".", "d">>
BareName == <<"h", "o", "s", "t">>
Ipv4Address == <<"1", "0", ".", "0", ".", "0", ".", "1">>
Ipv6Address == <<":", ":", "1">>

Identifiers == {FqdnName, OtherName, ShortName, BareName, Ipv4Address, Ipv6Address}
Addresses == {Ipv4Address}
RecordIds == {<<"4", "2">>}

ParamSets ==
    { EmptyMap,
      "multiple" :> BoolValue(TRUE),
      "multiple" :> BoolValue(FALSE),
      "multiple" :> StringValue(<<"yes">>),
      "sendsmtp" :> BoolValue(TRUE),
      ("sendsmtp" :> BoolValue(FALSE)) @@ ("ttl" :> IntValue(60)),
      ("multiple" :> BoolValue(TRUE)) @@ ("sendsmtp" :> StringValue(<<"0">>)),
      "mac" :> IntValue(1) }

SearchTable ==
    <<"<table>",
      TdOpen, "Name", TdClose, TdOpen>> \o FqdnName \o <<TdClose,
      TdOpen, "TTL", TdClose, TdOpen, "6", "0", TdClose,
      TdOpen, "SMTP", Space, "emit", Space, "right", TdClose, TdOpen, "Yes", TdClose,
      TdOpen, "DHCP", Space, "profile", TdClose,
      TdOpen, "No", Space, "profile", TdClose,
      TdOpen, "Aliases", TdClose, TdOpen, "www", Space, "ftp", TdClose,
      TdOpen, "Comment", TdClose>>

EditForm ==
    <<"<form>",
      InputOpen, "type", "hidden", "name", "action", "value", "store", TagEnd,
      InputOpen, "type", "text", "name", "mac", "value", "aa", TagEnd,
      InputOpen, "type", "checkbox", "name", "sendsmtp", "value", "1",
          "checked", "", TagEnd,
      SelectOpen, "name", "iddhcpprof", TagEnd,
      OptionOpen, "value", "0", TagEnd,
      OptionOpen, "value", "3", "selected", "", TagEnd,
      SelectClose>>

Bodies ==
    { <<>>,
      <<"text">>,
      <<ErrorBanner>>,
      <<ErrorBanner, ErrorOpen, Quote, "text", Quote, ErrorClose>>,
      <<ErrorBanner, ErrorOpen, "Name '", "ab", "' does not exist", ErrorClose>>,
      <<ErrorBanner, ErrorOpen, "text", Newline, ErrorClose>>,
      <<ErrorBanner, "Host has been added.">>,
      <<ErrorBanner, ErrorOpen, "text", ErrorClose, "Host has been added.">>,
      <<ErrorOpen, "text", ErrorClose>>,
      <<"Host has been added.">>,
      <<"The modification has been stored in database">>,
      <<"text", "has been removed">>,
      <<"The alias has been added">>,
      <<"String '", "ab", "' not found">>,
      <<ErrorBanner, ErrorOpen, "String '", "ab", "' not found", ErrorClose>>,
      <<"is a", "text", Newline, " in view ">>,
      <<"is a", " host", " in view ">>,
      <<"is a", " host", " in view ">> \o SearchTable,
      EditForm }

CallResponses ==
    {Failure, CutResponse(200, <<>>), Response(500, <<>>, <<"text">>)}
    \cup {Response(200, <<>>, b) : b \in Bodies}

(***************************************************************************)
(* The operations as steps of the caller                                   *)
(***************************************************************************)
\* A call of an operation with its arguments (the ones the operation does
\* not take are left empty).
Invocation(op, fqdn, data, ip, idrr, params) ==
    [op |-> op, c |-> 0, fqdn |-> fqdn, data |-> data, ip |-> ip, idrr |-> idrr,
     params |-> params, check |-> ""]

OperationNames == {FqdnName, ShortName, BareName}

Invocations ==
    {Invocation("Search", h, <<>>, <<>>, <<>>, EmptyMap) : h \in Identifiers}
    \cup {Invocation("GetHost", h, <<>>, <<>>, <<>>, EmptyMap) : h \in OperationNames}
    \cup {Invocation("AddHost", h, <<>>, ip, <<>>, params) :
             h \in OperationNames, ip \in Addresses, params \in ParamSets}
    \cup {Invocation("UpdateHost", h, <<>>, <<>>, idrr, params) :
             h \in OperationNames, idrr \in RecordIds, params \in ParamSets}
    \cup {Invocation("DelHost", h, <<>>, <<>>, <<>>, EmptyMap) : h \in OperationNames}
    \cup {Invocation("AddAlias", h, d, <<>>, <<>>, EmptyMap) :
             h \in OperationNames, d \in {OtherName, BareName}}
    \cup {[Invocation("Call", <<>>, <<>>, <<>>, <<>>, EmptyMap) EXCEPT !.check = op] :
             op \in Operations}

\* The caller calls an operation of client i.
Begin(i, inv) ==
    /\ pc = "idle"
    /\ i \in 1..Len(clients)
    /\ pc' = inv.op
    /\ loc' = [inv EXCEPT !.c = i]
    /\ log' = <<>>
    /\ answers' = <<>>
    /\ result' = Running(inv.op)
    /\ UNCHANGED <<httpClients, clients>>

\* The call ends: it returns, or it panics.
Finish(ret) ==
    IF ret.kind = "panic" THEN Crash(ret.op) ELSE Return(ret)

\* An operation that makes at most one call, answered by r.
Answered(out, r) == IF out.sent = <<>> THEN <<>> ELSE <<r>>

OneCall(op, out, r) ==
    /\ pc = op
    /\ log' = log \o out.sent
    /\ answers' = answers \o Answered(out, r)
    /\ Finish(out.ret)
    /\ UNCHANGED <<httpClients, clients, loc>>

\* A caller's own use of Call, with the form and the predicate of an operation.
CallStep(r) ==
    pc = "Call"
    /\ OneCall("Call",
               Call(clients[loc.c], <<"/", "mod">>, [action |-> <<"edit">>],
                    loc.check, r), r)

SearchStep(r) ==
    pc = "Search" /\ OneCall("Search", Search(clients[loc.c], loc.fqdn, r), r)

GetHostStep(r) ==
    pc = "GetHost" /\ OneCall("GetHost", GetHost(clients[loc.c], loc.fqdn, r), r)

UpdateHostStep(r) ==
    pc = "UpdateHost"
    /\ OneCall("UpdateHost",
               UpdateHost(clients[loc.c], loc.fqdn, loc.idrr, loc.params, r), r)

DelHostStep(r) ==
    pc = "DelHost" /\ OneCall("DelHost", DelHost(clients[loc.c], loc.fqdn, r), r)

AddAliasStep(r) ==
    pc = "AddAlias"
    /\ OneCall("AddAlias", AddAlias(clients[loc.c], loc.fqdn, loc.data, r), r)

\* AddHost up to its write
AddHostStep(r) ==
    /\ pc = "AddHost"
    /\ LET out == AddHostCheck(clients[loc.c], loc.fqdn, loc.params, r)
       IN  /\ log' = log \o out.sent
           /\ answers' = answers \o Answered(out, r)
           /\ IF out.proceed
              THEN /\ pc' = "AddHostWrite"
                   /\ result' = out.ret
              ELSE Finish(out.ret)
    /\ UNCHANGED <<httpClients, clients, loc>>

\* The write of AddHost
AddHostWriteStep(r) ==
    /\ pc = "AddHostWrite"
    /\ LET out == AddHostWrite(clients[loc.c], loc.fqdn, loc.ip, loc.params, r)
       IN  /\ log' = log \o out.sent
           /\ answers' = answers \o Answered(out, r)
           /\ Finish(out.ret)
    /\ UNCHANGED <<httpClients, clients, loc>>

Init ==
    /\ pc = "idle"
    /\ httpClients = 0
    /\ clients = <<>>
    /\ loc = <<>>
    /\ log = <<>>
    /\ answers = <<>>
    /\ result = NoResult

Next ==
    \/ \E url \in BaseUrls, u \in Usernames, p \in Passwords, r \in StartResponses :
          NewClient(url, u, p, r)
    \/ \E r \in LoginPageResponses : GetLoginPage(r)
    \/ \E r \in CredentialResponses : Login(r)
    \/ \E r \in CallbackResponses : LoginCallback(r)
    \/ \E i \in 1..Len(clients), inv \in Invocations : Begin(i, inv)
    \/ \E r \in CallResponses : CallStep(r)
    \/ \E r \in CallResponses : SearchStep(r)
    \/ \E r \in CallResponses : GetHostStep(r)
    \/ \E r \in CallResponses : AddHostStep(r)
    \/ \E r \in CallResponses : AddHostWriteStep(r)
    \/ \E r \in CallResponses : UpdateHostStep(r)
    \/ \E r \in CallResponses : DelHostStep(r)
    \/ \E r \in CallResponses : AddAliasStep(r)

Spec == Init /\ [][Next]_vars

(***************************************************************************)
(* splitFqdn on its own: the caller picks a name and splitFqdn cuts it     *)
(***************************************************************************)
MaxLabels == 4   \* the names have at most this many labels

FqdnLabels ==
    {<<>>, <<"a">>, <<"a", "b">>, <<"c", "d">>, <<"e", "f">>, <<"1", "0">>,
     <<"a", "-", "b">>}

\* The labels joined by dots.
RECURSIVE JoinLabels(_)
JoinLabels(labels) ==
    IF Len(labels) = 1 THEN labels[1]
    ELSE labels[1] \o <<Dot>> \o JoinLabels(Tail(labels))

FqdnNames ==
    UNION {{JoinLabels(labels) : labels \in [1..n -> FqdnLabels]} : n \in 1..MaxLabels}

SplitInit ==
    /\ pc = "splitFqdn"
    /\ loc \in {[fqdn |-> n] : n \in FqdnNames}
    /\ httpClients = 0
    /\ clients = <<>>
    /\ log = <<>>
    /\ answers = <<>>
    /\ result = Running("splitFqdn")

\* name, domain := splitFqdn(fqdn)
SplitStep ==
    /\ pc = "splitFqdn"
    /\ LET split == splitFqdn(loc.fqdn)
       IN  IF split.panic THEN Crash("splitFqdn")
           ELSE Return(Value("splitFqdn", <<split.name, split.domain>>))
    /\ UNCHANGED <<httpClients, clients, loc, log, answers>>

SplitNext == SplitStep

SplitSpec == SplitInit /\ [][SplitNext]_vars

(***************************************************************************)
(* The decoding of the /search page on its own: a client that NewClient    *)
(* returned runs Search and the server answers with a table of cells       *)
(***************************************************************************)
MaxCells == 4   \* the table has at most this many cells

\* The texts of the cells: the labels, and the values.
LabelTexts ==
    {<<"Name">>, <<"TTL">>, <<"SMTP", Space, "emit", Space, "right">>,
     <<"DHCP", Space, "profile">>, <<"Aliases">>, <<"Is", Space, "alias">>,
     <<Space, "Allowed", Space, "(", "groups", ")">>}
ValueTexts ==
    {FqdnName, <<"6", "0">>, <<"Yes">>, <<"No">>, <<>>,
     <<"No", Space, "profile">>, <<Space, "www", Space, "ftp">>}

\* The tables of n cells: a label, a value, a label, ...
TableTexts(n) ==
    {texts \in [1..n -> LabelTexts \cup ValueTexts] :
        \A i \in 1..n : texts[i] \in (IF i % 2 = 1 THEN LabelTexts ELSE ValueTexts)}

\* The cells of a table, one after the other.
RECURSIVE TableCells(_)
TableCells(texts) ==
    IF texts = <<>> THEN <<>>
    ELSE <<TdOpen>> \o Head(texts) \o <<TdClose>> \o TableCells(Tail(texts))

\* A page /search answers for a host it found.
SearchPage(texts) ==
    <<"is a", " host", " in view ", "<table>">> \o TableCells(texts)

SearchPages ==
    {SearchPage(texts) : texts \in UNION {TableTexts(n) : n \in 0..MaxCells}}

DecodeHosts == {FqdnName, OtherName}

DecodeInit ==
    /\ pc = "Search"
    /\ httpClients = 1
    /\ clients \in {<<[BaseUrl |-> url, HttpClient |-> 1]>> : url \in BaseUrls}
    /\ loc \in {[Invocation("Search", h, <<>>, <<>>, <<>>, EmptyMap) EXCEPT !.c = 1] :
                    h \in DecodeHosts}
    /\ log = <<>>
    /\ answers = <<>>
    /\ result = Running("Search")

\* Search reads the answer of the server.
SearchDecodeStep ==
    /\ pc = "Search"
    /\ \E page \in SearchPages : SearchStep(Response(200, <<>>, page))

DecodeNext == SearchDecodeStep

DecodeSpec == DecodeInit /\ [][DecodeNext]_vars

(***************************************************************************)
(* The decoding of both pages on their own: a client that NewClient        *)
(* returned runs Search or GetHost and the server answers with a page: a   *)
(* table of cells for Search, a form of inputs and one select for GetHost  *)
(***************************************************************************)
MaxNodes == 2   \* the form has at most this many inputs, the select this many options

\* The attributes of the <input> nodes, as the page writes them.
InputAttrs ==
    {<<"type", "checkbox", "name", "sendsmtp", "value", "1", "checked", "">>,
     <<"type", "checkbox", "name", "sendsmtp", "value", "1">>,
     <<"name", "sendsmtp", "checked", "">>,
     <<"type", "checkbox", "checked", "", "name", "sendsmtp", "value", "1">>,
     <<"type", "text", "name", "mac", "value", "aa">>,
     <<"type", "hidden", "name", "action", "value", "store">>}

\* The attributes of the <option> nodes.
OptionAttrs ==
    {<<"value", "0">>,
     <<"value", "3", "selected", "">>,
     <<"selected", "", "value", "4">>,
     <<"value", "5", "selected", "", "class", "x">>}

SelectNames == {"iddhcpprof", "hinfo"}

\* The nodes of one tag, one after the other.
RECURSIVE FormNodes(_, _)
FormNodes(open, attrs) ==
    IF attrs = <<>> THEN <<>>
    ELSE <<open>> \o Head(attrs) \o <<TagEnd>> \o FormNodes(open, Tail(attrs))

\* A <select> with its options.
SelectNode(name, options) ==
    <<SelectOpen, "name", name, TagEnd>> \o FormNodes(OptionOpen, options)
        \o <<SelectClose>>

\* The runs of at most MaxNodes attribute lists out of S.
NodeRuns(S) == UNION {[1..n -> S] : n \in 0..MaxNodes}

\* A page /mod answers: the inputs, then the selects.
FormPage(inputs, selects) == <<"<form>">> \o FormNodes(InputOpen, inputs) \o selects

FormPages ==
    {FormPage(inputs, selects) :
        inputs \in NodeRuns(InputAttrs),
        selects \in {<<>>} \cup {SelectNode(name, options) :
                                    name \in SelectNames,
                                    options \in NodeRuns(OptionAttrs)}}

ScrapeInit ==
    /\ pc \in {"Search", "GetHost"}
    /\ httpClients = 1
    /\ clients \in {<<[BaseUrl |-> url, HttpClient |-> 1]>> : url \in BaseUrls}
    /\ loc \in {[Invocation(pc, h, <<>>, <<>>, <<>>, EmptyMap) EXCEPT !.c = 1] :
                    h \in DecodeHosts}
    /\ log = <<>>
    /\ answers = <<>>
    /\ result = Running(pc)

\* GetHost reads the answer of the server.
GetHostDecodeStep ==
    /\ pc = "GetHost"
    /\ \E page \in FormPages : GetHostStep(Response(200, <<>>, page))

ScrapeNext == SearchDecodeStep \/ GetHostDecodeStep

ScrapeSpec == ScrapeInit /\ [][ScrapeNext]_vars

(***************************************************************************)
(* Properties                                                              *)
(***************************************************************************)
\* The call that result is of has ended.
Finished == pc \in {"idle", "crashed"}

\* The body a call reads from answer a.
BodyOf(a) == IF a.fail \/ a.cut THEN <<>> ELSE a.body

\* The kinds of failure of Call.
ServerRejected(ret) ==
    ret.kind = "error" /\ ret.err # <<>> /\ Head(ret.err) = "NetmagisError: "
UnexpectedResponse(ret) ==
    /\ ret.kind = "error"
    /\ Contains(ret.err,
           "ValidationError: unexpected output (raw HTML answer for debug): ")

\* C1: Call classifies every response body in a fixed precedence: with the
\* error banner it fails with ServerRejected, whatever the success predicate
\* says; else, accepted by the predicate, it is returned unchanged; else the
\* call fails with UnexpectedResponse.
C1_CallClassifies ==
    (result.op = "Call" /\ Finished /\ Len(answers) = 1 /\ ~answers[1].fail) =>
        LET body == BodyOf(answers[1])
        IN  IF Contains(body, ErrorBanner) THEN ServerRejected(result)
            ELSE IF CheckFunc(loc.check, body) THEN result = Value("Call", body)
            ELSE UnexpectedResponse(result) /\ SubSeq(result.err, 2, Len(result.err)) = body

\* What an operation reads from a body as the sign of its success; for
\* GetHost, whose predicate accepts everything, a node of the edit form.
Confirms(op, body) ==
    IF op = "GetHost"
    THEN Contains(body, InputOpen) \/ Contains(body, SelectOpen)
    ELSE CheckFunc(op, body)

\* C2: an operation whose answer holds neither the error banner nor the
\* confirmation of that operation ends in UnexpectedResponse.
C2_NoSuccessWithoutConfirmation ==
    (/\ result.op \in Operations \ {"AddHost"}
     /\ Finished
     /\ Len(answers) = 1
     /\ ~answers[1].fail
     /\ ~Contains(BodyOf(answers[1]), ErrorBanner)
     /\ ~Confirms(result.op, BodyOf(answers[1])))
    => UnexpectedResponse(result)

\* What makes each step of the handshake a success.
StartSucceeded(a) == ~a.fail /\ a.status \in {301, 302} /\ Len(a.location) > 0
LoginPageSucceeded(a) ==
    /\ ~a.fail /\ a.status = 200 /\ ~a.cut
    /\ FindExecutionToken(a.body).err = NoError
CredentialsSucceeded(a) ==
    ~a.fail /\ ~loginErrorRegexp(BodyOf(a)) /\ Len(a.location) > 0
CallbackSucceeded(a) == ~a.fail

\* The requests of the handshake NewClient is running, in their order.
StartRequest == Request(loc.httpClient, "GET", loc.url \o <<"/", "start">>, NoForm)
LoginPageRequest == Request(loc.httpClient, "GET", answers[1].location[1], NoForm)
CredentialsRequest ==
    Request(loc.httpClient, "POST", answers[1].location[1],
            LoginForm(loc.username, loc.password,
                      FindExecutionToken(answers[2].body).token))
CallbackRequest == Request(loc.httpClient, "GET", answers[3].location[1], NoForm)

HandshakeSucceeded ==
    /\ Len(answers) = 4
    /\ StartSucceeded(answers[1])
    /\ LoginPageSucceeded(answers[2])
    /\ CredentialsSucceeded(answers[3])
    /\ CallbackSucceeded(answers[4])

\* C4: NewClient returns a client only after the four steps succeeded; when
\* a step fails it returns an error and no client; a request of an
\* operation is only sent through a client NewClient returned.
C4_ClientOnlyAfterHandshake ==
    /\ (result.op = "NewClient" /\ result.kind = "value") => HandshakeSucceeded
    /\ (result.op = "NewClient" /\ Finished /\ ~HandshakeSucceeded) =>
           result.kind = "error"
    /\ (result.op \in Operations \cup {"Call"}) =>
           \A k \in 1..Len(log) :
               \E i \in 1..Len(clients) : log[k].client = clients[i].HttpClient

\* C5: whatever the remote side answers during the handshake, NewClient
\* returns a client or an error; it never ends abnormally.
C5_EstablishAlwaysReturns ==
    result.op = "NewClient" => result.kind \in {"running", "value", "error"}

\* C6: when the transport fails on the callback GET, NewClient returns the
\* error of the callback.
C6_CallbackFailureIsReturned ==
    (result.op = "NewClient" /\ Finished /\ Len(answers) = 4 /\ answers[4].fail) =>
        result.kind = "error" /\ Contains(result.err, "login call back error: ")

\* The page of the login service that says the authentication failed.
AuthenticationFailed(body) ==
    \E i \in 1..(Len(body) - 1) :
        body[i] = AuthFailedHead /\ body[i + 1] = AuthFailedTail

\* C7: when the answer to the credentials POST is the authentication-failed
\* page, NewClient returns the invalid-credentials error, sends no callback
\* GET and returns no client.
C7_InvalidCredentials ==
    (/\ result.op = "NewClient"
     /\ Len(answers) >= 3
     /\ ~answers[3].fail
     /\ AuthenticationFailed(BodyOf(answers[3])))
    => /\ pc = "idle"
       /\ result.kind = "error"
       /\ Contains(result.err, "invalid login or password")
       /\ Len(log) = 3

\* C8: when the answer to GET {url}/start has a status other than 301 and
\* 302, NewClient returns the no-redirect error and sends nothing else.
C8_NoRedirect ==
    (/\ result.op = "NewClient"
     /\ ~answers[1].fail
     /\ answers[1].status \notin {301, 302})
    => /\ pc = "idle"
       /\ result.kind = "error"
       /\ Head(result.err) = "NewClient: unable to retrieve CAS URL: "
       /\ Contains(result.err, "invalid status code: '")
       /\ log = <<StartRequest>>

C8_Witness ==
    /\ result.op = "NewClient" /\ result.kind = "error"
    /\ ~answers[1].fail /\ answers[1].status = 200
    /\ answers[1].location = <<CasLoginUrl>>
    /\ Len(log) = 1

\* The URLs the operations of client c post to.
OperationUrls(c) ==
    {c.BaseUrl \o <<"/", path>> : path \in {"search", "mod", "add", "del"}}

\* C9: every request of an operation goes through the HttpClient the client
\* was made with, which no other client has, and none goes to {url}/start
\* or to the login service.
C9_SameTransportNoReauthentication ==
    /\ \A i, j \in 1..Len(clients) :
           i # j => clients[i].HttpClient # clients[j].HttpClient
    /\ (result.op \in Operations \cup {"Call"}) =>
           \A k \in 1..Len(log) :
               /\ log[k].client = clients[loc.c].HttpClient
               /\ log[k].method = "POST"
               /\ log[k].url \in OperationUrls(clients[loc.c])
               /\ log[k].url # clients[loc.c].BaseUrl \o <<"/", "start">>
               /\ log[k].url # CasLoginUrl

C9_Witness ==
    /\ result.op = "AddHost" /\ result.kind = "error"
    /\ Len(clients) = 2 /\ loc.c = 2
    /\ Len(log) = 2

\* The write of AddHost: a POST to {url}/add.
IsWrite(c, req) == req.method = "POST" /\ req.url = c.BaseUrl \o <<"/", "add">>

\* C10: when the GetHost of AddHost finds the host, AddHost without
\* `multiple` returns the already-declared error and sends no write, and
\* with `multiple` set it goes on to the write.
C10_DuplicateNeedsMultiple ==
    (/\ result.op = "AddHost"
     /\ Len(answers) >= 1
     /\ GetHost(clients[loc.c], loc.fqdn, answers[1]).ret.kind = "value")
    => LET c == clients[loc.c]
           multiple == try(loc.params, "multiple", BoolValue(FALSE))
       IN  /\ multiple = BoolValue(FALSE) =>
                 /\ pc = "idle"
                 /\ result.kind = "error"
                 /\ Contains(result.err, "' already declared, use ")
                 /\ Len(log) = 1
                 /\ ~IsWrite(c, log[1])
           /\ (/\ multiple = BoolValue(TRUE)
               /\ ~AddHostForm(<<>>, <<>>, loc.ip, loc.params).panic) =>
                 \/ pc = "AddHostWrite" /\ Len(log) = 1
                 \/ Finished /\ Len(log) = 2 /\ IsWrite(c, log[2])

C10_Witness ==
    /\ result.op = "AddHost" /\ result.kind = "error"
    /\ "multiple" \notin DOMAIN loc.params
    /\ Len(answers) = 1 /\ BodyOf(answers[1]) = EditForm
    /\ Contains(result.err, "' already declared, use ")

\* The identifier passes the test of Search: an IP address or an FQDN.
ValidIdentifier(host) == checkIp(host) \/ checkFqdn(host)

\* C11: Search on an identifier that is neither an FQDN nor an IP address
\* returns the validation error and sends nothing; a request to /search is
\* only sent for an identifier that passes the test.
C11_SearchValidatesFirst ==
    result.op = "Search" =>
        /\ (Finished /\ ~ValidIdentifier(loc.fqdn)) =>
               /\ result = Error("Search", <<"host '">> \o loc.fqdn
                                   \o <<"' is not a FQDN or and IP address">>)
               /\ log = <<>>
        /\ \A k \in 1..Len(log) :
               /\ ValidIdentifier(loc.fqdn)
               /\ log[k].url = clients[loc.c].BaseUrl \o <<"/", "search">>
               /\ log[k].form = [q |-> loc.fqdn]

C11_Witness ==
    /\ result.op = "Search" /\ Finished
    /\ loc.fqdn = ShortName
    /\ result.kind = "error" /\ log = <<>>

\* Search sent its request and read the body of the answer.
SearchAnswered ==
    result.op = "Search" /\ Finished /\ Len(answers) = 1 /\ ~answers[1].fail

AddHostWrote ==
    /\ result.op = "AddHost" /\ Len(log) = 2
    /\ IsWrite(clients[loc.c], log[2])

\* C13: the form AddHost posts to /add has no sendsmtp when the parameter
\* is false or not given, has sendsmtp = "1" when it is true, and never
\* has sendsmtp = "0".
C13_SmtpOmittedWhenFalse ==
    AddHostWrote =>
        LET form == log[2].form
            given == "sendsmtp" \in DOMAIN loc.params
        IN  /\ "sendsmtp" \in DOMAIN form => form["sendsmtp"] # <<"0">>
            /\ (~given \/ (given /\ loc.params["sendsmtp"] = BoolValue(FALSE)))
                   => "sendsmtp" \notin DOMAIN form
            /\ (given /\ loc.params["sendsmtp"] = BoolValue(TRUE))
                   => /\ "sendsmtp" \in DOMAIN form
                      /\ form["sendsmtp"] = <<"1">>

C13_Witness ==
    /\ AddHostWrote
    /\ "sendsmtp" \in DOMAIN loc.params
    /\ loc.params["sendsmtp"] = BoolValue(FALSE)
    /\ "sendsmtp" \notin DOMAIN log[2].form
    /\ "ttl" \in DOMAIN log[2].form

\* The answer is a rejection by the server: the banner and an error block.
Rejected(a) ==
    /\ ~a.fail
    /\ Contains(BodyOf(a), ErrorBanner)
    /\ errorRegexpFindSubmatch(BodyOf(a)) # <<>>

\* The message of a rejection: the text of the block without its quotes.
RejectionMessage(a) == Trim(errorRegexpFindSubmatch(BodyOf(a))[2], Quote)

AddHostWriteAnswered ==
    AddHostWrote /\ pc = "idle" /\ Len(answers) = 2 /\ ~answers[2].fail

\* What AddHost returns on the body of the answer to its write when the
\* predicate alone decides.
AddHostWriteClassified(body) ==
    IF Contains(body, "Host has been added.")
    THEN result = Value("AddHost", <<>>)
    ELSE result = Error("AddHost",
             <<"ValidationError: unexpected output (raw HTML answer for debug): ">>
             \o body)

C16_BannerAlwaysReturnsError ==
    (/\ result.op = "Call" /\ Finished
     /\ Len(answers) = 1 /\ ~answers[1].fail
     /\ Contains(BodyOf(answers[1]), ErrorBanner))
    => /\ pc = "idle"
       /\ ServerRejected(result)
       /\ Rejected(answers[1]) =>
              result.err = <<"NetmagisError: ">> \o RejectionMessage(answers[1])

\* The operation whose predicate reads the k-th answer of the running
\* operation: the first call of AddHost is the one of GetHost.
PredicateOf(k) ==
    IF result.op = "AddHost" /\ k = 1 THEN "GetHost" ELSE result.op

\* The k-th request of the running operation failed: in the transport, or
\* by the classification of the body (the banner, or a body the predicate
\* refuses).  The rejection "Name '...' does not exist" of the edit form is
\* the absence of the host, not a failure.
CallFailed(k) ==
    LET a == answers[k]
        body == BodyOf(a)
    IN  \/ a.fail
        \/ /\ Contains(body, ErrorBanner)
           /\ ~(/\ PredicateOf(k) = "GetHost"
                /\ Rejected(a)
                /\ nameNotExistRegexp(RejectionMessage(a)))
        \/ ~Contains(body, ErrorBanner) /\ ~CheckFunc(PredicateOf(k), body)

\* The requests an operation may send, in their order.
RequestsInOrder ==
    LET c == clients[loc.c]
    IN  IF result.op = "AddHost"
        THEN /\ Len(log) <= 2
             /\ Len(log) >= 1 => log[1].url = c.BaseUrl \o <<"/", "mod">>
             /\ Len(log) = 2 => IsWrite(c, log[2])
        ELSE Len(log) <= 1

\* C17: no operation retries.  Search, GetHost, UpdateHost, DelHost and
\* AddAlias send at most one request, AddHost at most two, the read before
\* the write; after the first request that fails the operation sends
\* nothing more and returns that failure.
C17_NoRetryFailureReturned ==
    result.op \in Operations =>
        /\ RequestsInOrder
        /\ Len(answers) = Len(log)
        /\ \A k \in 1..Len(answers) :
               CallFailed(k) =>
                   /\ k = Len(answers)
                   /\ pc = "idle"
                   /\ result.kind = "error"

\* C18: for every name checkFqdn accepts, splitFqdn returns a label and a
\* remainder with label + "." + remainder = name and no dot in the label.
C18_SplitFqdnRoundTrip ==
    (result.op = "splitFqdn" /\ Finished /\ checkFqdn(loc.fqdn)) =>
        /\ result.kind = "value"
        /\ result.val[1] \o <<Dot>> \o result.val[2] = loc.fqdn
        /\ Dot \notin Range(result.val[1])

C18_Witness ==
    /\ result.op = "splitFqdn" /\ Finished
    /\ loc.fqdn = <<"1", "0", ".", "a", "-", "b", ".", "c", "d", ".", "e", "f">>
    /\ checkFqdn(loc.fqdn)
    /\ result.val = <<<<"1", "0">>, <<"a", "-", "b", ".", "c", "d", ".", "e", "f">>>>

\* Search returned a record.
SearchDecoded == result.op = "Search" /\ result.kind = "value"

\* C19: in every record Search returns, is_alias is true exactly when the
\* decoded name is not the host that was asked for; a cell labelled
\* "Is alias" does not change it.
C19_IsAliasIsComputed ==
    SearchDecoded =>
        LET hostParams == result.val
            named == /\ <<"name">> \in DOMAIN hostParams
                     /\ hostParams[<<"name">>] = StringValue(loc.fqdn)
        IN  /\ <<"is", "_", "alias">> \in DOMAIN hostParams
            /\ hostParams[<<"is", "_", "alias">>] = BoolValue(~named)

C19_Witness ==
    /\ SearchDecoded
    /\ loc.fqdn = FqdnName
    /\ BodyOf(answers[1]) =
           SearchPage(<<<<"Is", Space, "alias">>, <<"Yes">>, <<"Name">>, FqdnName>>)
    /\ result.val[<<"is", "_", "alias">>] = BoolValue(FALSE)

\* The cells of the page Search decoded: their number, the text of cell k
\* (k from 0) and the pairs (label cell 2k, value cell 2k + 1).
CellCount == Len(Positions(BodyOf(answers[1]), TdOpen))
CellText(k) ==
    nodeText(BodyOf(answers[1]), Positions(BodyOf(answers[1]), TdOpen)[k + 1])
CellPairs == {k \in 0..CellCount : 2 * k + 1 < CellCount}
PairLabel(k) == FieldKey(CellText(2 * k))
PairValue(k) == CellText(2 * k + 1)

\* The entry is what the field of that label holds for the text of its
\* value cell.
Coerced(entry, label, value) ==
    CASE label = <<"smtp", "_", "emit", "_", "right">> ->
            IF value = <<"Yes">> THEN entry = BoolValue(TRUE)
            ELSE IF value \in {<<"No">>, <<>>} THEN entry = BoolValue(FALSE)
            ELSE entry.t = "bool"
      [] label = <<"ttl">> ->
            IF value # <<>> /\ \A ch \in Range(value) : IsDigit(ch)
            THEN entry = IntValue(Decimal(value))
            ELSE entry = IntValue(0)
      [] label = <<"dhcp", "_", "profile">> ->
            IF value = <<"No", Space, "profile">> THEN entry = StringValue(<<>>)
            ELSE entry = StringValue(value)
      [] label \in {<<"aliases">>, <<"allowed", "_", "groups">>} ->
            entry = ListValue(Split(value, Space))
      [] OTHER -> entry = StringValue(value)

SearchSuccessBody(body) ==
    /\ ~Contains(body, ErrorBanner)
    /\ searchRegexpValidate(body)
    /\ ~hostNotFoundRegexp(body)

\* The body is one GetHost decodes: any page with no error banner.
GetHostSuccessBody(body) == ~Contains(body, ErrorBanner)

\* The call got one whole answer of the server.
ScrapeAnswered(op) ==
    /\ result.op = op
    /\ Finished
    /\ Len(answers) = 1
    /\ ~answers[1].fail
    /\ ~answers[1].cut

\* The names of the <input> and <select> nodes of the page GetHost read.
FormNames ==
    LET body == BodyOf(answers[1])
    IN  {SelectAttr(Attr(body, i), "name") :
            i \in Range(Positions(body, InputOpen))
                  \cup Range(Positions(body, SelectOpen))}

\* C21: neither decoding fails because a field is absent: on every success
\* body, one with no cell (Search) or no input and no select (GetHost)
\* included, the operation returns a record and no error, and the record
\* holds only fields the page holds (and is_alias for Search).
C21_AbsentFieldsNeverFail ==
    /\ (ScrapeAnswered("Search") /\ SearchSuccessBody(BodyOf(answers[1]))) =>
           /\ result.kind = "value"
           /\ <<"is", "_", "alias">> \in DOMAIN result.val
           /\ DOMAIN result.val \subseteq
                  {PairLabel(k) : k \in CellPairs} \cup {<<"is", "_", "alias">>}
    /\ (ScrapeAnswered("GetHost") /\ GetHostSuccessBody(BodyOf(answers[1]))) =>
           /\ result.kind = "value"
           /\ DOMAIN result.val \subseteq FormNames

\* GetHost returned the empty record for a form with no node.
C21_Witness ==
    /\ ScrapeAnswered("GetHost")
    /\ BodyOf(answers[1]) = <<"<form>">>
    /\ result = Value("GetHost", EmptyMap)

\* Search returned the record of is_alias alone for a page with no cell.
C21_WitnessSearch ==
    /\ ScrapeAnswered("Search")
    /\ CellCount = 0
    /\ result.kind = "value"
    /\ DOMAIN result.val = {<<"is", "_", "alias">>}

\* GetHost returned the record of a form.
FormDecoded == result.op = "GetHost" /\ result.kind = "value" /\ Finished

\* The node opened at i of the page GetHost read carries the attribute key.
Carries(i, key) ==
    \E k \in 1..Len(Attr(BodyOf(answers[1]), i)) :
        Attr(BodyOf(answers[1]), i)[k].Key = key

\* The nodes of that tag and that name, and the last of them.
NodesNamed(open, name) ==
    {i \in Range(Positions(BodyOf(answers[1]), open)) :
        SelectAttr(Attr(BodyOf(answers[1]), i), "name") = name}

\* The options of the select opened at i that carry the selected marker.
MarkedOptions(i) ==
    {o \in Range(Options(BodyOf(answers[1]), i)) : Carries(o, "selected")}

\* C22: in the record GetHost decodes, sendsmtp is "1" exactly when its
\* input node carries `checked`, wherever that attribute stands among the
\* others, and "0" otherwise; a select node is recorded with the value of
\* its option that carries `selected`, whatever else the option carries,
\* and iddhcpprof is "0" only when no option carries it.
C22_MarkersDecide ==
    FormDecoded =>
        LET body == BodyOf(answers[1])
            hostParams == result.val
        IN  /\ NodesNamed(InputOpen, "sendsmtp") # {} =>
                   /\ "sendsmtp" \in DOMAIN hostParams
                   /\ hostParams["sendsmtp"] =
                          IF Carries(Max(NodesNamed(InputOpen, "sendsmtp")), "checked")
                          THEN "1" ELSE "0"
            /\ \A name \in SelectNames :
                   NodesNamed(SelectOpen, name) # {} =>
                       LET marked == MarkedOptions(Max(NodesNamed(SelectOpen, name)))
                       IN  IF marked # {}
                           THEN /\ name \in DOMAIN hostParams
                                /\ hostParams[name] =
                                       SelectAttr(Attr(body, Min(marked)), "value")
                           ELSE IF name = "iddhcpprof"
                                THEN /\ name \in DOMAIN hostParams
                                     /\ hostParams[name] = "0"
                                ELSE name \notin DOMAIN hostParams

\* The fields the forms of AddHost and UpdateHost share.
SharedFields ==
    {"ttl", "mac", "iddhcpprof", "hinfo", "comment", "respname", "respmail",
     "sendsmtp"}
Shared(form) == [f \in (DOMAIN form) \cap SharedFields |-> form[f]]

\* The form holds the defaults for what params does not give.
HoldsDefaults(form, params) ==
    /\ "ttl" \notin DOMAIN params => form["ttl"] = <<>>
    /\ "iddhcpprof" \notin DOMAIN params => form["iddhcpprof"] = <<"0">>
    /\ "hinfo" \notin DOMAIN params => form["hinfo"] = <<"PC/Unix">>
    /\ ("sendsmtp" \notin DOMAIN params \/ params["sendsmtp"] = BoolValue(FALSE))
           => "sendsmtp" \notin DOMAIN form

\* UpdateHost sent its form.
UpdateHostSent == result.op = "UpdateHost" /\ Len(log) = 1

\* C23: for the same params the forms of UpdateHost and AddHost hold the
\* same values of ttl, mac, iddhcpprof, hinfo, comment, respname, respmail
\* and sendsmtp, with the same defaults (ttl empty, iddhcpprof 0, hinfo
\* PC/Unix, sendsmtp left out when false); the form of UpdateHost holds
\* the idrr of the caller as well, and UpdateHost succeeds only on a body
\* that holds the phrase of the stored modification.
C23_UpdateLikeCreate ==
    /\ UpdateHostSent =>
           /\ Shared(log[1].form) =
                  Shared(AddHostForm(<<>>, <<>>, <<>>, loc.params).form)
           /\ HoldsDefaults(log[1].form, loc.params)
           /\ log[1].form["idrr"] = loc.idrr
           /\ log[1].url = clients[loc.c].BaseUrl \o <<"/", "mod">>
    /\ AddHostWrote =>
           /\ Shared(log[2].form) =
                  Shared(UpdateHostForm(<<>>, <<>>, <<>>, loc.params).form)
           /\ HoldsDefaults(log[2].form, loc.params)
           /\ "idrr" \notin DOMAIN log[2].form
    /\ (UpdateHostSent /\ Finished /\ result.kind = "value") =>
           Contains(BodyOf(answers[1]), "The modification has been stored in database")

C23_Witness ==
    /\ UpdateHostSent
    /\ Finished
    /\ result.kind = "value"
    /\ loc.params = EmptyMap
    /\ log[1].form["hinfo"] = <<"PC/Unix">>
    /\ log[1].form["idrr"] = <<"4", "2">>
    /\ "sendsmtp" \notin DOMAIN log[1].form

\* The URL DelHost posts its form to.
DeletionUrl(c) == c.BaseUrl \o <<"/", "del">>

\* C24: AddAlias never sends its form to the URL DelHost posts to.
C24_AliasNotPostedToDel ==
    result.op = "AddAlias" =>
        \A k \in 1..Len(log) : log[k].url # DeletionUrl(clients[loc.c])

\* The operations that split the name they are given.
SplittingOperations == {"GetHost", "AddHost", "UpdateHost", "DelHost", "AddAlias"}

\* The call was given a name with no dot in it.
NameWithoutDot ==
    \/ Dot \notin Range(loc.fqdn)
    \/ result.op = "AddAlias" /\ Dot \notin Range(loc.data)

\* C25: GetHost, AddHost, UpdateHost, DelHost and AddAlias, given a name
\* with no dot in it, end by returning a result or an error and not by a
\* panic, and every request they send carries a domain field.
C25_NamesAlwaysSplit ==
    result.op \in SplittingOperations =>
        /\ (Finished /\ NameWithoutDot) => result.kind \in {"value", "absent", "error"}
        /\ \A k \in 1..Len(log) : "domain" \in DOMAIN log[k].form

====
